---- MODULE Spec2Model ----
(***************************************************************************)
(* A model of portableappliancetest.py: the decoder of the Seaward 'SSS'   *)
(* stream.  The byte stream is a sequence of integers 0..255; the frame    *)
(* reader (records_gen), the sub-record walker (parse_record), the report  *)
(* step (report_record) and the loop of main over its input files are the  *)
(* actions.  Decoded values are cells [k, v]: k is the kind of the value   *)
(* and v a sequence of integers (a number, the code points of a text, the  *)
(* fields of a timestamp).  A rescaled measurement is kept in thousandths. *)
(***************************************************************************)
EXTENDS Integers, Sequences, FiniteSets, TLC

\* ------------------------------------------------------------------ bounds
\* Records per input stream.
MaxRecords == 2
\* Files main decodes in one process (each holds the same stream).
MaxRuns == 2

\* ----------------------------------------------------------- byte helpers
\* The recursions below are functions of a sequence where the source loops
\* over one: a function is applied to the value of its argument, which TLC
\* then computes once per call.
Bytes == Seq(Nat)

\* The sum of the values of a byte sequence (by halves, to keep the
\* recursion shallow on long payloads).
SumBytes(s) ==
  LET sum[t \in Bytes] ==
        IF t = <<>> THEN 0
        ELSE IF Len(t) = 1 THEN t[1]
        ELSE LET h == Len(t) \div 2
             IN  sum[SubSeq(t, 1, h)] + sum[SubSeq(t, h + 1, Len(t))]
  IN  sum[s]

Fill(b, n) == [i \in 1..n |-> b]
Zeros(n) == Fill(0, n)

\* s[:n] and s[n:] of a Python bytes object.
Take(s, n) == SubSeq(s, 1, IF n < Len(s) THEN n ELSE Len(s))
Drop(s, n) == SubSeq(s, n + 1, Len(s))

RECURSIVE Pow10(_)
Pow10(n) == IF n <= 0 THEN 1 ELSE 10 * Pow10(n - 1)

\* struct's big-endian unsigned integer of Len(s) bytes.
RECURSIVE BigEndian(_)
BigEndian(s) ==
  IF s = <<>> THEN 0 ELSE 256 * BigEndian(SubSeq(s, 1, Len(s) - 1)) + s[Len(s)]

\* ------------------------------------------------------------- text fields
\* bytes.replace(b'\x00', b'')
StripZeros(s) ==
  LET strip[t \in Bytes] ==
        IF t = <<>> THEN <<>>
        ELSE IF Head(t) = 0 THEN strip[Tail(t)]
        ELSE <<Head(t)>> \o strip[Tail(t)]
  IN  strip[s]

\* bytes.rstrip(): trailing ASCII whitespace (tab, LF, VT, FF, CR, space).
Whitespace == {9, 10, 11, 12, 13, 32}

RStrip(s) ==
  LET strip[t \in Bytes] ==
        IF t = <<>> THEN <<>>
        ELSE IF t[Len(t)] \in Whitespace THEN strip[SubSeq(t, 1, Len(t) - 1)]
        ELSE t
  IN  strip[s]

IsCont(b) == b >= 128 /\ b <= 191

\* Length of the well-formed UTF-8 sequence at the head of s, 0 if there is
\* none (the strict decoder then raises UnicodeDecodeError).
Utf8Len(s) ==
  LET b == s[1]
      c(i) == IF Len(s) >= i THEN s[i] ELSE 0
  IN  IF b < 128 THEN 1
      ELSE IF b >= 194 /\ b <= 223 /\ IsCont(c(2)) THEN 2
      ELSE IF b = 224 /\ c(2) >= 160 /\ c(2) <= 191 /\ IsCont(c(3)) THEN 3
      ELSE IF b = 237 /\ c(2) >= 128 /\ c(2) <= 159 /\ IsCont(c(3)) THEN 3
      ELSE IF b >= 225 /\ b <= 239 /\ b # 237 /\ IsCont(c(2)) /\ IsCont(c(3)) THEN 3
      ELSE IF b = 240 /\ c(2) >= 144 /\ c(2) <= 191 /\ IsCont(c(3)) /\ IsCont(c(4)) THEN 4
      ELSE IF b >= 241 /\ b <= 243 /\ IsCont(c(2)) /\ IsCont(c(3)) /\ IsCont(c(4)) THEN 4
      ELSE IF b = 244 /\ c(2) >= 128 /\ c(2) <= 143 /\ IsCont(c(3)) /\ IsCont(c(4)) THEN 4
      ELSE 0

Utf8Valid(s) ==
  LET valid[t \in Bytes] ==
        IF t = <<>> THEN TRUE
        ELSE IF Utf8Len(t) = 0 THEN FALSE
        ELSE valid[Drop(t, Utf8Len(t))]
  IN  valid[s]

\* The code point of one well-formed sequence of n bytes.
CodePoint(s, n) ==
  IF n = 1 THEN s[1]
  ELSE IF n = 2 THEN (s[1] % 32) * 64 + (s[2] % 64)
  ELSE IF n = 3 THEN (s[1] % 16) * 4096 + (s[2] % 64) * 64 + (s[3] % 64)
  ELSE (s[1] % 8) * 262144 + (s[2] % 64) * 4096 + (s[3] % 64) * 64 + (s[4] % 64)

\* bytes.decode('utf-8') of a well-formed s: its code points.
Utf8Decode(s) ==
  LET decode[t \in Bytes] ==
        IF t = <<>> THEN <<>>
        ELSE LET n == Utf8Len(t)
             IN  <<CodePoint(t, n)>> \o decode[Drop(t, n)]
  IN  decode[s]

\* Mutant of TextBytes: the trailing whitespace is stripped first and the
\* zero bytes are removed after it.
TextBytes_strip_first(raw) == StripZeros(RStrip(raw))

\* Sdb.unpack, a str field: zero bytes removed, right-stripped (then decoded).
TextBytes(raw) == RStrip(StripZeros(raw))

\* ------------------------------------------------------------------- cells
IntCell(n) == [k |-> "int", v |-> <<n>>]
StrCell(cp) == [k |-> "str", v |-> cp]
NumCell(thousandths) == [k |-> "num", v |-> <<thousandths>>]
BoolCell(b) == [k |-> "bool", v |-> <<IF b THEN 1 ELSE 0>>]
NoResult == [k |-> "str", v |-> <<40, 110, 111, 32, 114, 101, 115, 117, 108, 116, 41>>]

\* ----------------------------------------------------------- field schemas
F(name, kind, size) == [name |-> name, kind |-> kind, size |-> size]

FieldLists == Seq([name : STRING, kind : STRING, size : Nat])

\* The `fields` list of each Sdb subclass.
Fields ==
  [ SSSRecordHeader |->
      << F("payload_length", "int", 2), F("nulls", "int", 2),
         F("checksum_header", "int", 2) >>,
    SSSVisualTest |->
      << F("id", "str", 16), F("hour", "int", 1), F("minute", "int", 1),
         F("day", "int", 1), F("month", "int", 1), F("year", "int", 2),
         F("site", "str", 16), F("location", "str", 16), F("tester", "str", 11),
         F("testcode1", "str", 10), F("testcode2", "str", 11) >>,
    SSSNoDataTest |-> << >>,
    SSSEarthResistanceTest |-> << F("resistance", "int", 2) >>,
    SSSEarthResistanceTestv2 |->
      << F("current", "int", 1), F("pass", "int", 1), F("resistance", "int", 2) >>,
    SSSEarthInsulationTest |-> << F("resistance", "int", 2) >>,
    SSSCurrentTest |-> << F("current", "int", 2) >>,
    SSSCurrentTestv2 |-> << F("pass", "int", 1), F("current", "int", 2) >>,
    SSSEarthInsulationTestv2 |-> << F("pass", "int", 1), F("resistance", "int", 2) >>,
    SSSPowerLeakTest |-> << F("leakage", "int", 2), F("load", "int", 2) >>,
    SSSPowerLeakTestv2 |->
      << F("pass", "int", 1), F("leakage", "int", 2), F("load", "int", 2) >>,
    SSSContinuityTest |-> << F("resistance", "int", 2) >>,
    SSSContinuityTestv2 |-> << F("pass", "int", 1), F("resistance", "int", 2) >>,
    SSSUserDataMappingTest |->
      << F("mapping1", "int", 1), F("mapping2", "int", 1),
         F("mapping3", "int", 1), F("mapping4", "int", 1) >>,
    SSSRetestTest |->
      << F("nulls", "int", 1), F("unknown", "int", 1), F("frequency", "int", 1) >>,
    SSSSoftwareVersionTest |->
      << F("serialnumber", "str", 11), F("firmware1", "int", 1),
         F("firmware2", "int", 1), F("firmware3", "int", 1) >>,
    SSSUserDataTest |->
      << F("line1", "str", 21), F("line2", "str", 21),
         F("line3", "str", 21), F("line4", "str", 21) >> ]

\* struct.calcsize of the format string build_format_string makes: with an
\* explicit byte order there is no padding, the sizes add up.
RECURSIVE SizeOf(_)
SizeOf(fields) ==
  IF fields = <<>> THEN 0 ELSE Head(fields).size + SizeOf(Tail(fields))

required_length(cls) == SizeOf(Fields[cls])

\* ------------------------------------------------------------ Sdb.unpack
\* The str fields of a structure of the right length all decode as UTF-8.
TextOk(fields, bytes) ==
  LET ok[x \in FieldLists \X Bytes] ==
        IF x[1] = <<>> THEN TRUE
        ELSE LET f == Head(x[1])
             IN  /\ f.kind = "str" => Utf8Valid(TextBytes(Take(x[2], f.size)))
                 /\ ok[<<Tail(x[1]), Drop(x[2], f.size)>>]
  IN  ok[<<fields, bytes>>]

\* The data of an Sdb after unpack: (name, value) in declaration order.
UnpackFields(fields, bytes) ==
  LET fill[x \in FieldLists \X Bytes] ==
        IF x[1] = <<>> THEN <<>>
        ELSE LET f == Head(x[1])
                 raw == Take(x[2], f.size)
                 val == IF f.kind = "str" THEN StrCell(Utf8Decode(TextBytes(raw)))
                        ELSE IntCell(BigEndian(raw))
             IN  <<[name |-> f.name, val |-> val]>>
                   \o fill[<<Tail(x[1]), Drop(x[2], f.size)>>]
  IN  fill[<<fields, bytes>>]

\* self.data: an OrderedDict, here the sequence of its (name, value) items.
Dicts == Seq([name : STRING, val : [k : STRING, v : Seq(Int)]])

Keys(data) == {data[i].name : i \in DOMAIN data}
Get(data, name) == data[CHOOSE i \in DOMAIN data : data[i].name = name].val

\* data[name] = val of an OrderedDict: in place, or appended when new.
Set(data, name, val) ==
  LET set[d \in Dicts] ==
        IF name \in Keys(d)
        THEN [i \in DOMAIN d |->
                IF d[i].name = name THEN [name |-> name, val |-> val] ELSE d[i]]
        ELSE Append(d, [name |-> name, val |-> val])
  IN  set[data]

\* list(data.values())
Values(data) == [i \in DOMAIN data |-> data[i].val]

\* ------------------------------------------------------- transform layer
\* Mutant of rescale_value: one flag bit and 15 bits in hundredths, as
\* 0.01 * (v & 0x7fff) would give.
rescale_value_hundredths(v) == 10 * (v % 32768)

\* SSS.rescale: 10**-(v >> 14) * (v & 0x3fff), here in thousandths.
rescale_value(v) == (v % 16384) * Pow10(3 - (v \div 16384))

rescale(data, key) == Set(data, key, NumCell(rescale_value(Get(data, key).v[1])))

\* SSS.passed
passed(data, key) == Set(data, key, BoolCell(Get(data, key).v[1] = 1))

\* Mutant of no_result: the resistance is left as it is.
no_result_never(data) == data

\* SSSContinuityTest.fixup: a zero resistance becomes '(no result)'.
no_result(data) ==
  IF Get(data, "resistance").v[1] = 0 THEN Set(data, "resistance", NoResult) ELSE data

\* Mutant of mappings: the table ends at 4, 'Serial No.' is missing.
mappings_short ==
  (0 :> <<78, 111, 116, 101, 115>>) @@
  (1 :> <<65, 115, 115, 101, 116, 32, 68, 101, 115, 99, 114, 105, 112, 116, 105, 111, 110>>) @@
  (2 :> <<65, 115, 115, 101, 116, 32, 71, 114, 111, 117, 112>>) @@
  (3 :> <<77, 97, 107, 101>>) @@
  (4 :> <<77, 111, 100, 101, 108>>)

\* SSSUserDataMappingTest.mappings
mappings ==
  (0 :> <<78, 111, 116, 101, 115>>) @@
  (1 :> <<65, 115, 115, 101, 116, 32, 68, 101, 115, 99, 114, 105, 112, 116, 105, 111, 110>>) @@
  (2 :> <<65, 115, 115, 101, 116, 32, 71, 114, 111, 117, 112>>) @@
  (3 :> <<77, 97, 107, 101>>) @@
  (4 :> <<77, 111, 100, 101, 108>>) @@
  (5 :> <<83, 101, 114, 105, 97, 108, 32, 78, 111, 46>>)

\* The mapping fields all index `mappings` (else the fixup raises KeyError).
MappingOk(data) == \A i \in DOMAIN data : data[i].val.v[1] \in DOMAIN mappings

\* 'meaning' + key[-1] of the four mapping fields.
meaning_key == <<"meaning1", "meaning2", "meaning3", "meaning4">>

RECURSIVE AddMeanings(_, _)
AddMeanings(data, i) ==
  IF i > 4 THEN data
  ELSE AddMeanings(Set(data, meaning_key[i], StrCell(mappings[data[i].val.v[1]])), i + 1)

\* The fixup of each class, applied by SSS.unpack.
fixup(cls, data) ==
  CASE cls \in {"SSSEarthResistanceTest", "SSSEarthInsulationTest"} ->
         rescale(data, "resistance")
    [] cls \in {"SSSEarthResistanceTestv2", "SSSEarthInsulationTestv2"} ->
         passed(rescale(data, "resistance"), "pass")
    [] cls = "SSSCurrentTest" -> rescale(data, "current")
    [] cls = "SSSCurrentTestv2" -> passed(rescale(data, "current"), "pass")
    [] cls = "SSSPowerLeakTest" -> rescale(rescale(data, "leakage"), "load")
    [] cls = "SSSPowerLeakTestv2" ->
         rescale(rescale(Set(data, "pass", BoolCell(Get(data, "pass").v[1] # 0)),
                         "leakage"), "load")
    [] cls = "SSSContinuityTest" -> no_result(rescale(data, "resistance"))
    [] cls = "SSSContinuityTestv2" ->
         no_result(passed(rescale(data, "resistance"), "pass"))
    [] cls = "SSSUserDataMappingTest" -> AddMeanings(data, 1)
    [] OTHER -> data

\* SSS.unpack of a structure of the right length: the fields, then the fixup.
unpack(cls, bytes) == fixup(cls, UnpackFields(Fields[cls], bytes))

\* ------------------------------------------------------------ type registry
TESTS_VERSION_1 ==
  (1 :> "SSSVisualTest") @@ (2 :> "SSSVisualTest") @@ (16 :> "SSSNoDataTest") @@
  (224 :> "SSSUserDataMappingTest") @@ (225 :> "SSSRetestTest") @@
  (240 :> "SSSNoDataTest") @@ (241 :> "SSSNoDataTest") @@
  (242 :> "SSSEarthResistanceTest") @@ (243 :> "SSSEarthInsulationTest") @@
  (244 :> "SSSCurrentTest") @@ (245 :> "SSSCurrentTest") @@
  (246 :> "SSSPowerLeakTest") @@ (247 :> "SSSCurrentTest") @@
  (248 :> "SSSContinuityTest") @@ (250 :> "SSSNoDataTest") @@
  (251 :> "SSSUserDataTest") @@ (254 :> "SSSSoftwareVersionTest") @@
  (255 :> "SSSNoDataTest")

TESTS_VERSION_2 ==
  (17 :> "SSSVisualTest") @@ (18 :> "SSSVisualTest") @@
  (242 :> "SSSEarthResistanceTestv2") @@ (243 :> "SSSEarthInsulationTestv2") @@
  (244 :> "SSSCurrentTestv2") @@ (245 :> "SSSCurrentTestv2") @@
  (246 :> "SSSPowerLeakTestv2") @@ (247 :> "SSSCurrentTestv2") @@
  (248 :> "SSSContinuityTestv2") @@ (249 :> "SSSNoDataTest")

\* Mutant of update: entries d has already are kept (setdefault).
update_keeping(d, other) ==
  [c \in DOMAIN d \cup DOMAIN other |-> IF c \in DOMAIN d THEN d[c] ELSE other[c]]

\* dict.update: the entries of other replace and extend those of d.
update(d, other) ==
  [c \in DOMAIN d \cup DOMAIN other |-> IF c \in DOMAIN other THEN other[c] ELSE d[c]]

\* ---------------------------------------------------------- report_record
\* One call of write (one cell) or write_row (several) on a sheet of the
\* workbook.  Sheet 0 is "Records", sheet 1 "Tests", sheets 2..7 the optional
\* data sheets.
W(sheet, row, col, cells) == [sheet |-> sheet, row |-> row, col |-> col, cells |-> cells]

RECORD_DATA_COLUMN == 1
SOFTWARE_COLUMN == 8
RETEST_FREQ_COLUMN == 10
ROW_ORDER_COLUMN == 11
OPTIONAL_SHEETS_OFFSET == 2

\* '%d' of a natural number: its decimal digits as code points.
RECURSIVE Decimal(_)
Decimal(n) == IF n < 10 THEN <<48 + n>> ELSE Decimal(n \div 10) \o <<48 + (n % 10)>>

\* ', '.join of the decimals of a sequence of numbers.
RECURSIVE JoinDecimal(_, _)
JoinDecimal(ns, sep) ==
  IF ns = <<>> THEN <<>>
  ELSE IF Len(ns) = 1 THEN Decimal(ns[1])
  ELSE Decimal(ns[1]) \o sep \o JoinDecimal(Tail(ns), sep)

\* str() of a tuple of four numbers: '(a, b, c, d)'.
TupleStr(ns) == <<40>> \o JoinDecimal(ns, <<44, 32>>) \o <<41>>

IsLeap(y) == (y % 4 = 0 /\ y % 100 # 0) \/ y % 400 = 0

DaysInMonth(y, m) ==
  IF m = 2 THEN (IF IsLeap(y) THEN 29 ELSE 28)
  ELSE IF m \in {4, 6, 9, 11} THEN 30 ELSE 31

\* datetime.datetime(year, month, day, hour, minute) raises no ValueError.
DateOk(year, month, day, hour, minute) ==
  /\ year >= 1 /\ year <= 9999
  /\ month >= 1 /\ month <= 12
  /\ day >= 1 /\ day <= DaysInMonth(year, month)
  /\ hour <= 23 /\ minute <= 59

VisualTypes == {1, 2, 17, 18}
RecordSheetTypes == VisualTypes \cup {254, 224, 225}

\* hour, minute, day, month, year = data_values[1:6] of a visual test.
VisualDateOk(dv) == DateOk(dv[6].v[1], dv[5].v[1], dv[4].v[1], dv[2].v[1], dv[3].v[1])

\* Mutant of tests_written: the range ends one code early, at 0xf9.
tests_written_short(test_type) ==
  IF (test_type >= 240 /\ test_type < 250) \/ test_type = 16 THEN 1 ELSE 0

\* Mutant of tests_written: the range runs to the end of the byte, the
\* sentinel 0xff included.
tests_written_wide(test_type) ==
  IF test_type >= 240 \/ test_type = 16 THEN 1 ELSE 0

\* tests_written of report_record: 1 for range(0xf0, 0xfb) and 0x10.
tests_written(test_type) ==
  IF (test_type >= 240 /\ test_type < 251) \/ test_type = 16 THEN 1 ELSE 0

\* The loop over the lines of a user data (FB) test, from line indx on.
\* st = [writes, user_counts].
RECURSIVE UserDataLoop(_, _, _, _, _)
UserDataLoop(dv, indx, rid, notes, st) ==
  IF indx > Len(dv) THEN st
  ELSE IF dv[indx].v = <<>> THEN UserDataLoop(dv, indx + 1, rid, notes, st)
  ELSE LET target == notes[indx]
           count == st.user_counts[target] + 1
       IN  UserDataLoop(dv, indx + 1, rid, notes,
             [ writes |-> Append(st.writes,
                            W(target + OPTIONAL_SHEETS_OFFSET, count, 0,
                              <<IntCell(rid), dv[indx]>>)),
               user_counts |-> [st.user_counts EXCEPT ![target] = count] ])

\* report_record on a test whose timestamp, if it has one, is a date:
\* the writes to the workbook, tests_written and the new static attributes.
report_record(rid, dv, test_type, tid, notes, counts) ==
  LET same(ws) == [ writes |-> ws, tests_written |-> 0,
                    user_notes |-> notes, user_counts |-> counts ]
      rid_cell == W(0, rid, 0, <<IntCell(rid)>>)
  IN
  IF test_type \in RecordSheetTypes THEN
    IF test_type = 254 THEN
      same(<< W(0, rid, SOFTWARE_COLUMN,
                << dv[1],
                   StrCell(JoinDecimal(<<dv[2].v[1], dv[3].v[1], dv[4].v[1]>>, <<46>>)) >>),
              rid_cell >>)
    ELSE IF test_type = 224 THEN
      LET new == << dv[1].v[1], dv[2].v[1], dv[3].v[1], dv[4].v[1] >>
      IN  [ writes |-> << W(0, rid, ROW_ORDER_COLUMN, <<StrCell(TupleStr(new))>>),
                          rid_cell >>,
            tests_written |-> 0, user_notes |-> new, user_counts |-> counts ]
    ELSE IF test_type = 225 THEN
      same(<< W(0, rid, RETEST_FREQ_COLUMN, <<dv[3]>>), rid_cell >>)
    ELSE
      LET timestamp == [ k |-> "ts",
                         v |-> << dv[6].v[1], dv[5].v[1], dv[4].v[1],
                                  dv[2].v[1], dv[3].v[1] >> ]
      IN  same(<< W(0, rid, RECORD_DATA_COLUMN,
                    << dv[1], timestamp >> \o SubSeq(dv, 7, Len(dv))),
                  rid_cell >>)
  ELSE IF tests_written(test_type) = 1 THEN
    [ writes |-> << W(1, tid, 0, << IntCell(tid), IntCell(rid), IntCell(test_type) >> \o dv) >>,
      tests_written |-> 1, user_notes |-> notes, user_counts |-> counts ]
  ELSE IF test_type = 251 THEN
    LET st == UserDataLoop(dv, 1, rid, notes, [writes |-> <<>>, user_counts |-> counts])
    IN  [ writes |-> st.writes, tests_written |-> 0,
          user_notes |-> notes, user_counts |-> st.user_counts ]
  ELSE same(<<>>)

\* ------------------------------------------------------------ input streams
Pad(s, n) == s \o Zeros(n - Len(s))

\* The 86 bytes of a visual test: id, hour, minute, day, month, year, site,
\* location, tester, testcode1, testcode2.
VisualBody(id, month) ==
  Pad(id, 16) \o <<10, 30, 25, month, 7, 222>> \o Pad(<<83, 0, 73, 84, 69, 32>>, 16)
    \o Pad(<<76, 65, 66>>, 16) \o Pad(<<84, 79, 77>>, 11)
    \o Fill(49, 10) \o Pad(Fill(50, 10), 11)

Visual(code) == <<code>> \o VisualBody(<<65, 49>>, 11)

\* 0xF2 with four more bytes: version 1 reads a resistance and then the
\* tests 0xF0 and 0xF1, version 2 reads current, pass and resistance.
Earth == <<242, 16, 1, 240, 241>>
EndOfRecord == <<255>>

UserData(l1, l2, l3, l4) == <<251>> \o Pad(l1, 21) \o Pad(l2, 21) \o Pad(l3, 21) \o Pad(l4, 21)

\* The payloads of the records the input streams are made of.
Payloads ==
  { Visual(1) \o Earth \o EndOfRecord,
    Visual(17) \o Earth \o <<249>> \o EndOfRecord,
    Visual(1) \o Visual(17) \o Earth,
    \* a test, a resistance of 10.0, the sentinel and bytes after it; the
    \* byte values add up to more than 65535
    <<16, 242, 64, 100, 255>> \o Fill(255, 260),
    \* user data mapping, then user data with an empty second line
    <<224, 3, 1, 0, 1>> \o UserData(<<65>>, <<>>, <<66>>, <<67, 32>>) \o EndOfRecord,
    \* user data under the mapping in force, software version, retest
    UserData(<<68>>, <<69>>, <<>>, <<>>) \o <<254>> \o Pad(<<83, 78, 49>>, 11)
      \o <<1, 20, 3>> \o <<225, 0, 0, 12>> \o EndOfRecord,
    \* a user data mapping of the sheets 5, 4, 2 and 0, then all version-1
    \* electrical tests
    Visual(2) \o <<224, 5, 4, 2, 0>>
      \o <<243, 0, 5, 244, 64, 7, 245, 128, 9, 246, 0, 1, 192, 2,
           247, 0, 3, 248, 64, 0, 250, 255>>,
    \* all version-2 electrical tests
    Visual(18) \o <<242, 25, 1, 0, 5, 243, 1, 64, 0, 244, 0, 64, 7, 245, 2, 128, 9,
                    246, 2, 0, 1, 192, 2, 247, 1, 0, 3, 248, 1, 0, 0, 249, 250, 16>>,
    \* a type code of no table after one test
    <<240, 85, 241>>,
    \* a code of the version-2 table alone, in a version-1 record
    <<16, 249, 255>>,
    \* a user data mapping that names no sheet
    <<16, 224, 0, 6, 0, 0, 255>>,
    \* a sub-record cut short
    <<241, 246, 0, 1, 0>>,
    \* a timestamp in month 13
    <<1>> \o VisualBody(<<65, 50>>, 13) \o EndOfRecord,
    \* an id that is no UTF-8
    <<1>> \o VisualBody(<<65, 255>>, 11) \o EndOfRecord,
    \* a visual test and the sentinel, 88 bytes
    Visual(1) \o EndOfRecord,
    \* 43 bytes that begin as a visual test does and end with the sentinel
    Take(Visual(1), 42) \o EndOfRecord }

Header(payload_length, nulls, checksum_header) ==
  << payload_length \div 256, payload_length % 256, nulls \div 256, nulls % 256,
     checksum_header \div 256, checksum_header % 256 >>

\* A well-formed record of the stream.
Frame(p) == Header(Len(p), 0, SumBytes(p) % 65536) \o p

\* A record whose checksum is off by one (and whose reserved field is set).
Corrupt(p) == Header(Len(p), 1, (SumBytes(p) + 1) % 65536) \o p

\* A record of no payload.
Empty == Header(0, 0, 0)

Records == {Frame(p) : p \in Payloads} \cup {Corrupt(<<16, 241, 255>>), Empty}

\* What a stream cut short ends with: 1 to 5 bytes of a header, or a record
\* whose payload lost its last byte (the bytes left add up to the checksum,
\* or they do not).
Tails ==
  {Take(Header(3, 0, 271), k) : k \in 1..5}
    \cup { Header(3, 0, 271) \o <<16, 255>>, Header(3, 0, 287) \o <<16, 255>> }

RECURSIVE RecordSeqs(_)
RecordSeqs(n) ==
  IF n = 0 THEN {<<>>}
  ELSE LET shorter == RecordSeqs(n - 1)
       IN  shorter \cup {s \o r : s \in shorter, r \in Records}

\* The streams of up to n records, the last of which may be cut.
StreamsOf(n) == RecordSeqs(n) \cup {s \o t : s \in RecordSeqs(n - 1), t \in Tails}

\* The input streams: up to MaxRecords records.
Streams == StreamsOf(MaxRecords)

\* -------------------------------------------------------------------- state
VARIABLES
  stream,         \* the bytes of the input file (BytesIO's buffer)
  pos,            \* BytesIO's position
  run,            \* the file main is at, 1..MaxRuns
  pc,             \* "header": records_gen at the top of its loop,
                  \* "walk": parse_record at the top of its loop,
                  \* "done": main is through with the file,
                  \* "error": an exception nobody catches ended the process
  err,            \* that exception and the expression that raised it
  record_header,  \* data of the SSSRecordHeader of records_gen
  payload,        \* the payload records_gen yielded last
  record_id,      \* of parse_sss
  rest,           \* the payload variable of parse_record: what is left of it
  test_type,      \* of parse_record, -1 for None
  version,        \* of parse_record
  tests,          \* of parse_record: the active type table
  test_id,        \* parse_record.test_id
  user_notes,     \* report_record.user_notes
  user_counts,    \* report_record.user_counts
  workbook,       \* the writes report_record made to the open workbook
  outputs,        \* the workbooks closed so far, one per file
  registry,       \* the module's tables TESTS_VERSION_1 and TESTS_VERSION_2, as
                  \* the process holds them
  yielded,        \* history: offset, payload and record id of each payload yielded
  codes           \* history: the type codes parse_record read in this record

vars == << stream, pos, run, pc, err, record_header, payload, record_id, rest,
           test_type, version, tests, test_id, user_notes, user_counts, workbook,
           outputs, registry, yielded, codes >>

reader_vars == << stream, pos, record_header >>
walker_vars == << rest, test_type, version, tests, codes >>
static_vars == << test_id, user_notes, user_counts >>

NoError == [type |-> "none", at |-> "none"]
Raised(type, at) == [type |-> type, at |-> at]

\* The state main begins in, the file named on the command line being one
\* of the streams S.
InitOn(S) ==
  /\ stream \in S
  /\ pos = 0
  /\ run = 1
  /\ pc = "header"
  /\ err = NoError
  /\ record_header = <<>>
  /\ payload = <<>>
  /\ record_id = 1
  /\ rest = <<>>
  /\ test_type = -1
  /\ version = 1
  /\ registry = [TESTS_VERSION_1 |-> TESTS_VERSION_1,
                  TESTS_VERSION_2 |-> TESTS_VERSION_2]
  /\ tests = registry.TESTS_VERSION_1
  /\ test_id = 1
  /\ user_notes = <<0, 1, 2, 3>>
  /\ user_counts = [t \in 0..5 |-> 0]
  /\ workbook = <<>>
  /\ outputs = <<>>
  /\ yielded = <<>>
  /\ codes = <<>>

Init == InitOn(Streams)

\* ------------------------------------------------------------- records_gen
\* filehandle.read(n) at the position p.
read(p, n) == Take(Drop(stream, p), n)

\* The header records_gen reads, and the payload it reads after it.
header == read(pos, required_length("SSSRecordHeader"))
header_data == unpack("SSSRecordHeader", header)
payload_length == Get(header_data, "payload_length").v[1]
next_payload == read(pos + Len(header), payload_length)

\* record_header.unpack(header): the fields are assigned into the same data.
RECURSIVE Assign(_, _)
Assign(data, new) ==
  IF new = <<>> THEN data
  ELSE Assign(Set(data, Head(new).name, Head(new).val), Tail(new))

\* Mutant of checksum: the sum is masked to one byte.
checksum_one_byte(p) == SumBytes(p) % 256

\* SSSRecordHeader.checksum: sum(payload) & 0xffff
checksum(p) == SumBytes(p) % 65536

checksum_match(p) == Get(header_data, "checksum_header").v[1] = checksum(p)

\* The data of record_header after checksum(p).
Checked(data, p) ==
  Set(Set(data, "checksum_payload", IntCell(checksum(p))),
      "checksum_match", BoolCell(checksum_match(p)))

\* No header is left: records_gen breaks, parse_sss returns and main closes
\* the workbook.
EndOfStream ==
  /\ pc = "header"
  /\ header = <<>>
  /\ pc' = "done"
  /\ outputs' = Append(outputs, workbook)
  /\ UNCHANGED << registry, stream, pos, run, err, record_header, payload, record_id,
                  walker_vars, static_vars, workbook, yielded >>

\* 1 to 5 bytes are left: struct.unpack raises struct.error.
ShortHeader ==
  /\ pc = "header"
  /\ header # <<>>
  /\ Len(header) < required_length("SSSRecordHeader")
  /\ pos' = pos + Len(header)
  /\ pc' = "error"
  /\ err' = Raised("struct.error", "record_header.unpack(header)")
  /\ UNCHANGED << registry, stream, run, record_header, payload, record_id, walker_vars,
                  static_vars, workbook, outputs, yielded >>

\* Mutant of ZeroLength: the loop is left (break for continue).
ZeroLength_break ==
  /\ pc = "header"
  /\ Len(header) = required_length("SSSRecordHeader")
  /\ payload_length = 0
  /\ pos' = pos + Len(header)
  /\ record_header' = Assign(record_header, header_data)
  /\ pc' = "done"
  /\ outputs' = Append(outputs, workbook)
  /\ UNCHANGED << registry, stream, run, err, payload, record_id, walker_vars,
                  static_vars, workbook, yielded >>

\* payload_length is 0: a warning, and on to the next header.
ZeroLength ==
  /\ pc = "header"
  /\ Len(header) = required_length("SSSRecordHeader")
  /\ payload_length = 0
  /\ pos' = pos + Len(header)
  /\ record_header' = Assign(record_header, header_data)
  /\ UNCHANGED << registry, stream, run, pc, err, payload, record_id, walker_vars,
                  static_vars, workbook, outputs, yielded >>

\* Mutant of ChecksumFailed: the skipped record is counted.
ChecksumFailed_counted ==
  /\ pc = "header"
  /\ Len(header) = required_length("SSSRecordHeader")
  /\ payload_length # 0
  /\ ~checksum_match(next_payload)
  /\ pos' = pos + Len(header) + Len(next_payload)
  /\ record_header' = Checked(Assign(record_header, header_data), next_payload)
  /\ record_id' = record_id + 1
  /\ UNCHANGED << registry, stream, run, pc, err, payload, walker_vars,
                  static_vars, workbook, outputs, yielded >>

\* The checksum does not match: an error is logged, and on to the next header.
ChecksumFailed ==
  /\ pc = "header"
  /\ Len(header) = required_length("SSSRecordHeader")
  /\ payload_length # 0
  /\ ~checksum_match(next_payload)
  /\ pos' = pos + Len(header) + Len(next_payload)
  /\ record_header' = Checked(Assign(record_header, header_data), next_payload)
  /\ UNCHANGED << registry, stream, run, pc, err, payload, record_id, walker_vars,
                  static_vars, workbook, outputs, yielded >>

\* The checksum matches: the payload is yielded, and parse_sss calls
\* parse_record, which starts from the version-1 table.
Yield ==
  /\ pc = "header"
  /\ Len(header) = required_length("SSSRecordHeader")
  /\ payload_length # 0
  /\ checksum_match(next_payload)
  /\ pos' = pos + Len(header) + Len(next_payload)
  /\ record_header' = Checked(Assign(record_header, header_data), next_payload)
  /\ payload' = next_payload
  /\ yielded' = Append(yielded, [off |-> pos, payload |-> next_payload, record_id |-> record_id])
  /\ rest' = next_payload
  /\ tests' = registry.TESTS_VERSION_1
  /\ version' = 1
  /\ test_type' = -1
  /\ codes' = <<>>
  /\ pc' = "walk"
  /\ UNCHANGED << registry, stream, run, err, record_id, static_vars, workbook, outputs >>

\* ------------------------------------------------------------ parse_record
\* Mutant of LoopOn: the loop goes on while payload is not empty, whatever
\* the type read last.
LoopOn_any_type == rest # <<>>

\* while payload and test_type != 0xff
LoopOn == rest # <<>> /\ test_type # 255

\* One pass of the loop: the type code, the table after the version check, the
\* class of the test, the bytes handed to unpack and what is left after them.
cur_type == Head(rest)

\* Mutant of after_code: the type code is read and left in the payload.
after_code_kept == rest

after_code == Tail(rest)
upgrade == version = 1 /\ cur_type \in {17, 18}
new_version == IF upgrade THEN version + 1 ELSE version

\* Mutant of new_tests: the version-2 table takes the place of the table.
new_tests_replaced == IF upgrade THEN registry.TESTS_VERSION_2 ELSE tests

new_tests == IF upgrade THEN update(tests, registry.TESTS_VERSION_2) ELSE tests

\* Mutant of written_tables: tests is the version-1 table itself and no copy
\* of it, so that update writes to the module's table.
written_tables_shared ==
  IF upgrade THEN [registry EXCEPT !.TESTS_VERSION_1 = new_tests] ELSE registry

\* The module's tables after the pass: tests is a copy of the version-1 table
\* (TESTS_VERSION_1.copy()), update writes to the copy, and the version-2
\* table is only read.
written_tables == registry
cls == new_tests[cur_type]
body == Take(after_code, required_length(cls))
raw_data == UnpackFields(Fields[cls], body)
data_values == Values(unpack(cls, body))

\* Mutant of fault: a structure shorter than its format is unpacked all the
\* same, no struct.error.
fault_lenient ==
  IF cur_type \notin DOMAIN new_tests THEN Raised("KeyError", "tests[test_type]")
  ELSE IF ~TextOk(Fields[cls], body) THEN Raised("UnicodeDecodeError", "decode")
  ELSE IF cls = "SSSUserDataMappingTest" /\ ~MappingOk(raw_data)
    THEN Raised("KeyError", "self.mappings[value]")
  ELSE IF cur_type \in VisualTypes /\ ~VisualDateOk(data_values)
    THEN Raised("ValueError", "datetime.datetime")
  ELSE NoError

\* The exception the pass ends with, in the order the code meets them.
fault ==
  IF cur_type \notin DOMAIN new_tests THEN Raised("KeyError", "tests[test_type]")
  ELSE IF Len(body) < required_length(cls)
    THEN Raised("struct.error", "current_test.unpack")
  ELSE IF ~TextOk(Fields[cls], body) THEN Raised("UnicodeDecodeError", "decode")
  ELSE IF cls = "SSSUserDataMappingTest" /\ ~MappingOk(raw_data)
    THEN Raised("KeyError", "self.mappings[value]")
  ELSE IF cur_type \in VisualTypes /\ ~VisualDateOk(data_values)
    THEN Raised("ValueError", "datetime.datetime")
  ELSE NoError

\* The pass raises: nothing in parse_sss or main catches it.
Raise ==
  /\ pc' = "error"
  /\ err' = fault
  /\ test_type' = cur_type
  /\ rest' = after_code
  /\ version' = new_version
  /\ tests' = new_tests
  /\ registry' = written_tables
  /\ codes' = Append(codes, cur_type)
  /\ UNCHANGED << reader_vars, run, payload, record_id, static_vars, workbook,
                  outputs, yielded >>

\* The type code is in no entry of the active table.
UnknownType ==
  /\ pc = "walk" /\ LoopOn
  /\ fault.at = "tests[test_type]"
  /\ Raise

\* Fewer bytes are left than the class of the test needs.
LayoutError ==
  /\ pc = "walk" /\ LoopOn
  /\ fault.at = "current_test.unpack"
  /\ Raise

\* A text field is no UTF-8.
TextError ==
  /\ pc = "walk" /\ LoopOn
  /\ fault.at = "decode"
  /\ Raise

\* A user data mapping outside 0..5.
MappingError ==
  /\ pc = "walk" /\ LoopOn
  /\ fault.at = "self.mappings[value]"
  /\ Raise

\* The timestamp of a visual test is no date.
DateError ==
  /\ pc = "walk" /\ LoopOn
  /\ fault.at = "datetime.datetime"
  /\ Raise

\* The pass decodes one sub-record and reports it.
Decode ==
  /\ pc = "walk"
  /\ LoopOn
  /\ fault = NoError
  /\ \E r \in {report_record(record_id, data_values, cur_type, test_id,
                               user_notes, user_counts)} :
         /\ workbook' = workbook \o r.writes
         /\ test_id' = test_id + r.tests_written
         /\ user_notes' = r.user_notes
         /\ user_counts' = r.user_counts
  /\ test_type' = cur_type
  /\ rest' = Drop(after_code, required_length(cls))
  /\ version' = new_version
  /\ tests' = new_tests
  /\ registry' = written_tables
  /\ codes' = Append(codes, cur_type)
  /\ UNCHANGED << reader_vars, run, pc, err, payload, record_id, outputs, yielded >>

\* The loop ends: parse_record returns and parse_sss counts the record.
RecordDone ==
  /\ pc = "walk"
  /\ ~LoopOn
  /\ record_id' = record_id + 1
  /\ pc' = "header"
  /\ UNCHANGED << reader_vars, run, err, payload, walker_vars, static_vars,
                  workbook, outputs, registry, yielded >>

\* -------------------------------------------------------------------- main
\* The next file of the command line, here with the same bytes: a new
\* BytesIO, a new workbook and a new call of parse_sss.  The attributes of
\* parse_record and report_record belong to the process and stay.
NextFile ==
  /\ pc = "done"
  /\ run < MaxRuns
  /\ run' = run + 1
  /\ pos' = 0
  /\ record_header' = <<>>
  /\ record_id' = 1
  /\ workbook' = <<>>
  /\ yielded' = <<>>
  /\ pc' = "header"
  /\ UNCHANGED << registry, stream, err, payload, walker_vars, static_vars, outputs >>

Next ==
  \/ EndOfStream
  \/ ShortHeader
  \/ ZeroLength
  \/ ChecksumFailed
  \/ Yield
  \/ UnknownType
  \/ LayoutError
  \/ TextError
  \/ MappingError
  \/ DateError
  \/ Decode
  \/ RecordDone
  \/ NextFile

Spec == Init /\ [][Next]_vars

\* The process is sequential and runs on: a step that can be taken is taken.
\* Checked on the streams of up to MaxFairRecords records.
MaxFairRecords == 1
InitFair == InitOn(StreamsOf(MaxFairRecords))

FairSpec == InitFair /\ [][Next]_vars /\ WF_vars(Next)

\* ------------------------------------------------- decoding of one sub-record
\* parse_sss on one file of well-formed records: the frame reader yields,
\* the walker decodes, the record is counted and the stream ends.
DecodeFile ==
  \/ Yield
  \/ Decode
  \/ RecordDone
  \/ EndOfStream

\* One record of one version-1 earth resistance test (0xF2): every value
\* of its 16-bit field.
RescaleStreams == {Frame(<<242, hi, lo>>) : hi \in 0..255, lo \in 0..255}

InitRescale == InitOn(RescaleStreams)

SpecRescale == InitRescale /\ [][DecodeFile]_vars

\* The values tried in a 16-bit field: every exponent with the mantissas
\* 0..MaxMantissa, 100 and the largest one.
MaxMantissa == 2
Mantissas == (0..MaxMantissa) \cup {100, 16383}
FieldValues == {16384 * e + m : e \in 0..3, m \in Mantissas}
PassBytes == {0, 1, 2, 255}
Bytes2(v) == <<v \div 256, v % 256>>

\* One record of one electrical test: under the version-1 table, or after a
\* visual test of type 0x11 under the version-2 table.
ElectricalStreams ==
  {Frame(<<c>> \o Bytes2(v)) : c \in {242, 243, 244, 245, 247, 248}, v \in FieldValues}
    \cup {Frame(<<246>> \o Bytes2(v) \o Bytes2(w)) : v \in {0, 49153}, w \in FieldValues}
    \cup {Frame(Visual(17) \o <<c, p>> \o Bytes2(v)) :
             c \in {243, 244, 245, 247, 248}, p \in PassBytes, v \in FieldValues}
    \cup {Frame(Visual(17) \o <<242, 25, p>> \o Bytes2(v)) : p \in PassBytes, v \in FieldValues}
    \cup {Frame(Visual(17) \o <<246, p, 0, 7>> \o Bytes2(v)) : p \in PassBytes, v \in FieldValues}

\* The contents tried in a text field of 16 bytes: "SITE", and every string
\* of up to MaxText bytes of NUL, space, line feed and "A", filled up with
\* NULs or with spaces.
MaxText == 3
TextAlphabet == {0, 32, 10, 65}

RECURSIVE TextsUpTo(_)
TextsUpTo(n) ==
  IF n = 0 THEN {<<>>}
  ELSE LET shorter == TextsUpTo(n - 1)
       IN  shorter \cup {Append(t, b) : t \in shorter, b \in TextAlphabet}

TextFields ==
  {t \o Fill(b, 16 - Len(t)) : t \in TextsUpTo(MaxText) \cup {<<83, 73, 84, 69>>}, b \in {0, 32}}

\* One record of one visual test whose id is the text field.
TextStreams == {Frame(<<1>> \o VisualBody(f, 11) \o EndOfRecord) : f \in TextFields}

\* One record of one user data mapping (0xE0): every four values of
\* 0..MaxMapping and 255.
MaxMapping == 6
MappingBytes == (0..MaxMapping) \cup {255}
MappingStreams ==
  {Frame(<<224, a, b, c, d>>) :
     a \in MappingBytes, b \in MappingBytes, c \in MappingBytes, d \in MappingBytes}

InitMapping == InitOn(MappingStreams)

\* parse_sss on such a file: it decodes, or the mapping raises KeyError.
DecodeMapping ==
  \/ DecodeFile
  \/ MappingError

SpecMapping == InitMapping /\ [][DecodeMapping]_vars

InitCodec == InitOn(ElectricalStreams \cup TextStreams)

SpecCodec == InitCodec /\ [][DecodeFile]_vars

TypeOK ==
  /\ pos \in 0..Len(stream)
  /\ run \in 1..MaxRuns
  /\ pc \in {"header", "walk", "done", "error"}
  /\ version \in {1, 2}
  /\ record_id >= 1
  /\ test_id >= 1
  /\ \A i \in DOMAIN user_notes : user_notes[i] \in 0..5

\* ==================================================================== claims
\* The header fields as they stand in the stream at the offset off.
LengthAt(off) == 256 * stream[off + 1] + stream[off + 2]
ChecksumAt(off) == 256 * stream[off + 5] + stream[off + 6]
HeaderSize == 6
HasHeader(off) == off + HeaderSize <= Len(stream)
EndOfFrame(off) ==
  IF off + HeaderSize + LengthAt(off) < Len(stream)
  THEN off + HeaderSize + LengthAt(off) ELSE Len(stream)
BodyAt(off) == SubSeq(stream, off + HeaderSize + 1, EndOfFrame(off))

\* The offsets at which a record starts: 0, and the end of each record.
RECURSIVE FrameStarts(_)
FrameStarts(off) ==
  IF ~HasHeader(off) THEN {off} ELSE {off} \cup FrameStarts(EndOfFrame(off))

ChecksumHolds(off) == SumBytes(BodyAt(off)) % 65536 = ChecksumAt(off)
YieldedOffsets == {yielded[i].off : i \in DOMAIN yielded}

\* The records whose header and payload the frame reader has read.
ReadFrames == {off \in FrameStarts(0) : HasHeader(off) /\ off < pos}

\* C1: a payload is yielded only if its bytes add up, modulo 65536, to the
\* checksum of its header; a record whose checksum does not match is not
\* yielded; headers are read at the end of the record before, so that every
\* record read so far that is not empty and whose checksum matches was yielded.
C1_ChecksumGate ==
  /\ \A i \in DOMAIN yielded :
       /\ yielded[i].payload = BodyAt(yielded[i].off)
       /\ SumBytes(yielded[i].payload) % 65536 = ChecksumAt(yielded[i].off)
  /\ pc \in {"header", "walk", "done"} => pos \in FrameStarts(0)
  /\ YieldedOffsets = {off \in ReadFrames : LengthAt(off) # 0 /\ ChecksumHolds(off)}

\* C1 witness: a record was skipped for its checksum and the record after it
\* was yielded.
C1_Witness ==
  \E off \in ReadFrames :
    /\ LengthAt(off) # 0
    /\ ~ChecksumHolds(off)
    /\ EndOfFrame(off) \in YieldedOffsets

MergedTable == update(TESTS_VERSION_1, TESTS_VERSION_2)

\* C2: once a 0x11 or 0x12 was met, the active table is the merged version-2
\* table for the rest of the stream: within one decode of the stream the
\* version never goes back to 1, not at a record boundary either.
C2_StreamWide ==
  [][(version = 2 /\ run' = run) => (version' = 2 /\ tests' = MergedTable)]_vars

\* A pass of the walker's loop that decoded a sub-record.
Decoded == pc = "walk" /\ pc' = "walk" /\ codes' = Append(codes, test_type')
SeenV2(cs) == \E i \in DOMAIN cs : cs[i] \in {17, 18}

\* The bytes after the type code of an electrical test, by version.
Version1Width == (242 :> 2) @@ (243 :> 2) @@ (244 :> 2) @@ (245 :> 2) @@
                 (246 :> 4) @@ (247 :> 2) @@ (248 :> 2)
Version2Width == (242 :> 4) @@ (243 :> 3) @@ (244 :> 3) @@ (245 :> 3) @@
                 (246 :> 5) @@ (247 :> 3) @@ (248 :> 3)
\* The values a version-2 test reports besides test id, record id and type.
Version2Values == (242 :> 3) @@ (243 :> 2) @@ (244 :> 2) @@ (245 :> 2) @@
                  (246 :> 3) @@ (247 :> 2) @@ (248 :> 2)
Version1Values == (242 :> 1) @@ (243 :> 1) @@ (244 :> 1) @@ (245 :> 1) @@
                  (246 :> 2) @@ (247 :> 1) @@ (248 :> 1)

LastWrite(wb) == wb[Len(wb)]
HasPass(w) == \E j \in DOMAIN w.cells : w.cells[j].k = "bool"

\* C3: within one payload an electrical sub-record (0xF2..0xF8) after a 0x11
\* or 0x12 is decoded with its version-2 schema (its width, and a pass value
\* of its own), one before the first 0x11 or 0x12 with its version-1 schema.
C3_SchemaByMarker ==
  [][(Decoded /\ test_type' \in 242..248) =>
       LET v2 == SeenV2(codes)
           t == test_type'
       IN  /\ Len(rest) - Len(rest') = 1 + (IF v2 THEN Version2Width[t] ELSE Version1Width[t])
           /\ Len(workbook') = Len(workbook) + 1
           /\ Len(LastWrite(workbook').cells) =
                3 + (IF v2 THEN Version2Values[t] ELSE Version1Values[t])
           /\ HasPass(LastWrite(workbook')) <=> v2]_vars

\* C3 witness: the payload visual-pass-v1, visual-pass-v2, earth-resistance
\* was walked, and the earth resistance took the four bytes after its code.
C3_Witness ==
  /\ pc = "walk"
  /\ codes = <<1, 17, 242>>
  /\ rest = <<>>
  /\ LastWrite(workbook).sheet = 1
  /\ HasPass(LastWrite(workbook))

DefaultNotes == <<0, 1, 2, 3>>

\* C4: decoding the same stream again, from a fresh start, yields the same
\* output; test-id counter, user-data mapping and counts start afresh.
C4_Idempotent ==
  /\ \A i \in DOMAIN outputs : outputs[i] = outputs[1]
  /\ (pc = "header" /\ pos = 0) =>
       /\ test_id = 1
       /\ user_notes = DefaultNotes
       /\ \A t \in DOMAIN user_counts : user_counts[t] = 0

\* C5: with fewer than 6 bytes left where a header is expected, the frame
\* reader ends the stream: no error, no further row.
C5_TruncatedHeader ==
  [][(pc = "header" /\ Len(stream) - pos < HeaderSize) =>
       (pc' = "done" /\ err' = NoError /\ workbook' = workbook)]_vars

\* C6: every payload yielded has the payload_length bytes its header declares.
C6_FullPayload ==
  \A i \in DOMAIN yielded : Len(yielded[i].payload) = LengthAt(yielded[i].off)

\* C7: a type code absent from the active table aborts the current record
\* alone: no row for it, and the frame reader goes on to the next header.
C7_UnknownTypeConfined ==
  [][(pc = "walk" /\ LoopOn /\ Head(rest) \notin DOMAIN new_tests) =>
       (workbook' = workbook /\ test_id' = test_id /\ pc' = "header")]_vars

\* C8: a header whose payload_length is 0 yields nothing and reads nothing
\* more: the next header is awaited at the very next byte, no record
\* identifier is used up and decoding goes on.
C8_ZeroLength ==
  [][(pc = "header" /\ HasHeader(pos) /\ LengthAt(pos) = 0) =>
       /\ pos' = pos + HeaderSize
       /\ pc' = "header"
       /\ err' = NoError
       /\ yielded' = yielded
       /\ record_id' = record_id
       /\ workbook' = workbook
       /\ outputs' = outputs]_vars

\* C8 witness: the record after an empty first record was yielded, as record 1.
C8_Witness ==
  /\ HasHeader(0)
  /\ LengthAt(0) = 0
  /\ yielded # <<>>
  /\ yielded[1].off = HeaderSize
  /\ yielded[1].record_id = 1

\* The record a write belongs to.
RecordOf(w) ==
  IF w.sheet = 0 THEN w.row
  ELSE IF w.sheet = 1 THEN w.cells[2].v[1]
  ELSE w.cells[1].v[1]

\* C9: the k-th payload yielded has record identifier k: the counter starts
\* at 1, counts each yielded record once and no skipped record.
C9_RecordIds ==
  /\ \A i \in DOMAIN yielded : yielded[i].record_id = i
  /\ pc = "walk" => record_id = Len(yielded)
  /\ pc \in {"header", "done"} => record_id = Len(yielded) + 1
  /\ \A j \in DOMAIN workbook : RecordOf(workbook[j]) \in 1..Len(yielded)

\* C9 witness: after a skipped record, a record was yielded and counted.
C9_Witness ==
  /\ pc = "header"
  /\ Len(yielded) = 1
  /\ yielded[1].off > 0
  /\ record_id = 2
  /\ workbook # <<>>

Measurement(t) == t = 16 \/ t \in 240..250

\* C10: the test identifier goes up by 1 with every decoded sub-record of type
\* 0x10 or 0xF0..0xFA, whose row carries it, and no other step changes it,
\* a record boundary included.
C10_TestIds ==
  [][IF Decoded /\ Measurement(test_type')
     THEN /\ test_id' = test_id + 1
          /\ workbook' = Append(workbook, LastWrite(workbook'))
          /\ LastWrite(workbook').sheet = 1
          /\ LastWrite(workbook').row = test_id
          /\ LastWrite(workbook').cells[1] = IntCell(test_id)
     ELSE test_id' = test_id]_vars

\* C10 witness: a test of the second record has the identifier after the
\* last one of the first record.
C10_Witness ==
  /\ run = 1
  /\ \E i \in DOMAIN workbook :
       /\ i > 1
       /\ workbook[i].sheet = 1 /\ RecordOf(workbook[i]) = 2
       /\ \E j \in 1..(i - 1) :
            /\ workbook[j].sheet = 1 /\ RecordOf(workbook[j]) = 1
            /\ workbook[i].row = workbook[j].row + 1

\* ---------------------------------------------------------------------- C11
\* The stream is one record of n payload bytes: its header gives the length
\* n, a reserved field of 0 and the sum of the payload; the payload begins
\* with the type code 0x01 and ends with the sentinel 0xFF.
OneVisualRecord(n) ==
  /\ Len(stream) = HeaderSize + n
  /\ LengthAt(0) = n
  /\ stream[3] = 0 /\ stream[4] = 0
  /\ ChecksumHolds(0)
  /\ stream[HeaderSize + 1] = 1
  /\ stream[Len(stream)] = 255

\* The bytes between the type code and the sentinel are the fields of a
\* visual test, texts of UTF-8 and a timestamp that is a date.
VisualFieldsAt(off) ==
  LET bytes == SubSeq(stream, off + 1, Len(stream) - 1)
  IN  /\ Len(bytes) = required_length("SSSVisualTest")
      /\ TextOk(Fields["SSSVisualTest"], bytes)
      /\ VisualDateOk(Values(UnpackFields(Fields["SSSVisualTest"], bytes)))

\* What the run of a file has written: one row of the Records sheet, the
\* row of record 1 (write_row of the data from column 1 on, write of the
\* record id in column 0) and nothing on the Tests sheet.
OneRecordRow(wb) ==
  /\ Len(wb) = 2
  /\ wb[1].sheet = 0 /\ wb[1].row = 1 /\ wb[1].col = RECORD_DATA_COLUMN
  /\ Len(wb[1].cells) = 7
  /\ wb[1].cells[2].k = "ts"
  /\ wb[2] = W(0, 1, 0, <<IntCell(1)>>)

\* No step of the decoding has raised, and once the stream is exhausted
\* the output is the one row of record 1; no test identifier was given.
OneRowNoError ==
  /\ pc # "error"
  /\ err = NoError
  /\ test_id = 1
  /\ \A i \in DOMAIN outputs : OneRecordRow(outputs[i])
  /\ pc = "done" => pos = Len(stream) /\ record_id = 2 /\ OneRecordRow(workbook)

\* C11 as stated: a stream of one record with a payload_length of 43, a
\* reserved field of 0 and a matching checksum, whose payload is the type
\* code 0x01, the bytes of a visual test and the sentinel 0xFF, yields one
\* output row with record identifier 1 and no test identifier, and the
\* stream is exhausted without error.
C11_Length43 == OneVisualRecord(43) => OneRowNoError

\* C11, amended: the visual test takes 86 bytes, so the record of one visual
\* test and the sentinel has a payload_length of 88; with a reserved field of
\* 0, a matching checksum and visual fields that decode (UTF-8 texts, a
\* timestamp that is a date), it yields exactly one row of the Records sheet,
\* with record identifier 1 and no test identifier, and the stream is
\* exhausted without error.
C11_EndToEnd ==
  (OneVisualRecord(88) /\ VisualFieldsAt(HeaderSize + 1)) => OneRowNoError

\* C11 witness: the record of 88 payload bytes was decoded to the end of the
\* stream and its row closed with the workbook.
C11_Witness ==
  /\ OneVisualRecord(88)
  /\ VisualFieldsAt(HeaderSize + 1)
  /\ pc = "done"
  /\ test_type = 255
  /\ outputs # <<>>
  /\ OneRecordRow(outputs[1])

\* ---------------------------------------------------------------------- C12
\* The 16-bit field at the end of the sub-record a step of the walker
\* decodes, and the last cell of the row the step wrote (a number is kept
\* in thousandths).
RawField ==
  LET n == Len(rest) - Len(rest')
  IN  256 * rest[n - 1] + rest[n]
Magnitude(wb) == LastWrite(wb).cells[Len(LastWrite(wb).cells)]

\* x thousandths is 10^-e * m.
ScaledBy(x, e, m) == x * <<1, 10, 100, 1000>>[e + 1] = 1000 * m

\* C12: for every 16-bit value v the rescaled value is 10^-(v >> 14) times
\* (v & 0x3FFF): the upper two bits are the negative decimal exponent and the
\* lower fourteen the mantissa; 0x4064 has exponent 1 and mantissa 100 and
\* yields 10.0.
C12_RescaleLaw ==
  [][(Decoded /\ test_type' = 242 /\ ~SeenV2(codes'))
       => /\ Magnitude(workbook').k = "num"
          /\ \E e \in 0..3 :
               LET m == RawField - 16384 * e
               IN  m \in 0..16383 /\ ScaledBy(Magnitude(workbook').v[1], e, m)
          /\ RawField = 16484 => Magnitude(workbook') = NumCell(10000)]_vars

\* C12 witness: the value 0x4064 was decoded to 10.0.
C12_Witness ==
  /\ payload = <<242, 64, 100>>
  /\ workbook # <<>>
  /\ Magnitude(workbook) = NumCell(10000)

\* ---------------------------------------------------------------------- C13
\* The cell c is the rescaled value of the 16-bit field v.
RescaledFrom(c, v) ==
  /\ c.k = "num"
  /\ \E e \in 0..3 :
       LET m == v - 16384 * e
       IN  m \in 0..16383 /\ ScaledBy(c.v[1], e, m)

\* C13: the resistance of a continuity test (0xF8), in version 1 and in
\* version 2, is the text "(no result)" exactly when the rescaled value is
\* zero, that is when the mantissa bits are zero whatever the exponent bits,
\* and the rescaled number otherwise; the row of no other electrical test
\* holds the text, a zero value stays the number 0.
C13_ContinuitySentinel ==
  [][(Decoded /\ test_type' \in 242..248)
       => IF test_type' = 248
          THEN IF RawField % 16384 = 0
               THEN Magnitude(workbook') = NoResult
               ELSE RescaledFrom(Magnitude(workbook'), RawField)
          ELSE /\ RescaledFrom(Magnitude(workbook'), RawField)
               /\ \A j \in DOMAIN LastWrite(workbook').cells :
                    LastWrite(workbook').cells[j] # NoResult]_vars

\* C13 witness: a version-2 continuity test with exponent bits set and a
\* zero mantissa was written as "(no result)".
C13_Witness ==
  /\ SeenV2(codes)
  /\ test_type = 248
  /\ rest = <<>>
  /\ payload[Len(payload) - 1] = 128 /\ payload[Len(payload)] = 0
  /\ Magnitude(workbook) = NoResult

\* ---------------------------------------------------------------------- C14
\* The bytes the schema of a type code takes after the code, in a record
\* that has (v2) or has not seen a visual test of type 0x11 or 0x12.
SchemaWidth(code, v2) ==
  IF code \in {1, 2, 17, 18} THEN 86
  ELSE IF code \in 242..248 THEN (IF v2 THEN Version2Width[code] ELSE Version1Width[code])
  ELSE IF code = 224 THEN 4
  ELSE IF code = 225 THEN 3
  ELSE IF code = 254 THEN 14
  ELSE IF code = 251 THEN 84
  ELSE 0

KnownCode(code, v2) ==
  code \in {1, 2, 16, 17, 18, 224, 225, 251, 254, 255} \cup (240..248) \cup {250}
    \/ (v2 /\ code = 249)

\* The walker is about to read a type code of the active table whose schema
\* takes more bytes than the payload has left.
TooShort ==
  /\ pc = "walk"
  /\ LoopOn
  /\ LET v2 == SeenV2(codes) \/ Head(rest) \in {17, 18}
     IN  /\ KnownCode(Head(rest), v2)
         /\ Len(rest) - 1 < SchemaWidth(Head(rest), v2)

\* C14: when fewer bytes are left in the payload than the selected schema
\* takes, the decoding of the sub-record fails with an error (struct.error):
\* no output row and no part of the fields is produced for it, and the test
\* identifier is not advanced.
C14_LayoutError ==
  [][TooShort
       => /\ pc' = "error"
          /\ err' = Raised("struct.error", "current_test.unpack")
          /\ workbook' = workbook
          /\ outputs' = outputs
          /\ test_id' = test_id
          /\ user_notes' = user_notes
          /\ user_counts' = user_counts]_vars

\* C14 witness: after a test that got a row, a power and leakage test of 3
\* bytes where 4 are due ended the decoding; the row before it is the last.
C14_Witness ==
  /\ pc = "error"
  /\ err.type = "struct.error"
  /\ test_type = 246
  /\ Len(rest) = 3
  /\ workbook # <<>>
  /\ LastWrite(workbook).cells[3] = IntCell(241)
  /\ test_id = LastWrite(workbook).row + 1

\* ---------------------------------------------------------------------- C15
\* The names of the optional sheets: Notes, Asset Description, Asset Group,
\* Make, Model, Serial No.
SheetName ==
  << <<78, 111, 116, 101, 115>>,
     <<65, 115, 115, 101, 116, 32, 68, 101, 115, 99, 114, 105, 112, 116, 105, 111, 110>>,
     <<65, 115, 115, 101, 116, 32, 71, 114, 111, 117, 112>>,
     <<77, 97, 107, 101>>,
     <<77, 111, 100, 101, 108>>,
     <<83, 101, 114, 105, 97, 108, 32, 78, 111, 46>> >>

\* The four mapping values of the user data mapping the walker is about to
\* decode.
MappingValues == <<rest[2], rest[3], rest[4], rest[5]>>

\* C15: each of the four mapping values of a user data mapping sub-record
\* (0xE0) that lies in 0..5 resolves to its entry of the fixed table, and the
\* sub-record is decoded and reported; with any value outside 0..5 the
\* decoding fails with a lookup error (KeyError) and no row is emitted for
\* the sub-record, nor is the mapping in force changed.
C15_MappingLookup ==
  [][(pc = "walk" /\ LoopOn /\ Head(rest) = 224 /\ Len(rest) >= 5)
       => IF \A i \in 1..4 : MappingValues[i] \in 0..5
          THEN /\ pc' = "walk"
               /\ err' = NoError
               /\ \A i \in 1..4 :
                    data_values[4 + i] = StrCell(SheetName[MappingValues[i] + 1])
               /\ user_notes' = MappingValues
               /\ Len(workbook') = Len(workbook) + 2
               /\ LastWrite(workbook').sheet = 0
          ELSE /\ pc' = "error"
               /\ err' = Raised("KeyError", "self.mappings[value]")
               /\ workbook' = workbook
               /\ user_notes' = user_notes]_vars

\* C15 witness: a mapping whose first value is 5 and whose second is 255
\* ended the decoding with no row written.
C15_Witness ==
  /\ pc = "error"
  /\ err.type = "KeyError"
  /\ test_type = 224
  /\ payload[2] = 5 /\ payload[3] = 255
  /\ workbook = <<>>

\* ---------------------------------------------------------------------- C16
\* The bytes of s that are not zero, in their order.
NotZero(b) == b # 0
WithoutZeros(s) == SelectSeq(s, NotZero)

\* s up to its last byte that is no ASCII whitespace.
Trimmed(s) ==
  LET keep == {i \in DOMAIN s : s[i] \notin {9, 10, 11, 12, 13, 32}}
  IN  IF keep = {} THEN <<>>
      ELSE SubSeq(s, 1, CHOOSE i \in keep : \A j \in keep : j <= i)

\* The text of a field of ASCII bytes: the code points are the bytes.
TextOf(field) == StrCell(Trimmed(WithoutZeros(field)))

\* The write of the data of a visual test: the one before the record id.
VisualWrite(wb) == wb[Len(wb) - 1]

\* C16: a text field is decoded by removing every zero byte, embedded or
\* trailing, and then trimming the trailing whitespace of what is left; a
\* 16-byte field of "SITE" and 12 zero bytes decodes to "SITE". Stated of
\* the id and the site of a visual test.
C16_TextDecoding ==
  [][(Decoded /\ test_type' \in {1, 2, 17, 18})
       => LET id == SubSeq(rest, 2, 17)
              site == SubSeq(rest, 24, 39)
          IN  /\ (\A i \in 1..16 : id[i] < 128)
                   => VisualWrite(workbook').cells[1] = TextOf(id)
              /\ (\A i \in 1..16 : site[i] < 128)
                   => VisualWrite(workbook').cells[3] = TextOf(site)
              /\ id = <<83, 73, 84, 69>> \o Zeros(12)
                   => VisualWrite(workbook').cells[1] = StrCell(<<83, 73, 84, 69>>)]_vars

\* C16 witness: an id of "SITE" and 12 zero bytes was decoded to "SITE",
\* next to a site of "S", a zero byte, "ITE", a space and zero bytes.
C16_Witness ==
  /\ pc = "done"
  /\ test_type = 255
  /\ SubSeq(payload, 2, 17) = <<83, 73, 84, 69>> \o Zeros(12)
  /\ SubSeq(payload, 24, 29) = <<83, 0, 73, 84, 69, 32>>
  /\ workbook[1].cells[1] = StrCell(<<83, 73, 84, 69>>)
  /\ workbook[1].cells[3] = StrCell(<<83, 73, 84, 69>>)

\* ---------------------------------------------------------------------- C17
\* C17: the walker stops as soon as it has consumed the sentinel 0xFF or the
\* payload is exhausted: the next step ends the record without an error and
\* reads none of the bytes left after the sentinel; the sentinel itself gives
\* no output row and no test identifier; the end of a payload with no
\* sentinel is the end of the record, not an error.
C17_WalkerStop ==
  [][/\ (pc = "walk" /\ (test_type = 255 \/ rest = <<>>))
          => /\ pc' = "header"
             /\ err' = NoError
             /\ rest' = rest
             /\ codes' = codes
             /\ workbook' = workbook
             /\ test_id' = test_id
             /\ record_id' = record_id + 1
     /\ (Decoded /\ test_type' = 255)
          => /\ Len(rest') = Len(rest) - 1
             /\ workbook' = workbook
             /\ test_id' = test_id
             /\ user_notes' = user_notes
             /\ user_counts' = user_counts]_vars

\* C17 witness: a record ended after its sentinel with bytes left unread,
\* one row written for the tests before it.
C17_Witness ==
  /\ pc = "header"
  /\ err = NoError
  /\ test_type = 255
  /\ Len(rest) = 260
  /\ codes = <<16, 242, 255>>
  /\ Len(workbook) = 2

\* ---------------------------------------------------------------------- C18
\* C18: the 16-bit field of a version-1 electrical sub-record packs a
\* pass/fail flag in its uppermost bit and a magnitude m in its lower 15
\* bits, and the sub-record decodes to the pair a version-2 sub-record with
\* that flag as pass byte and m as 16-bit value decodes to: the flag as a
\* boolean, and m rescaled; the uppermost bit is split off before rescaling
\* and does not change the magnitude.
C18_PackedFlag ==
  [][(Decoded /\ test_type' \in {242, 243, 244, 245, 247} /\ ~SeenV2(codes'))
       => LET flag == RawField \div 32768
              m == RawField % 32768
          IN  /\ RescaledFrom(Magnitude(workbook'), m)
              /\ \E j \in DOMAIN LastWrite(workbook').cells :
                   LastWrite(workbook').cells[j] = BoolCell(flag = 1)]_vars

\* ---------------------------------------------------------------------- C19
\* Decoding has reached the end of the stream or an error.
Terminal == pc \in {"done", "error"}

\* C19: for every finite stream the decoding reaches a terminal state, the
\* end of the stream or an error, after finitely many steps: every iteration
\* of the frame reader that does not end the decoding consumes at least one
\* byte of the stream (no more than the stream has), and every iteration of
\* the walker consumes at least the byte of the type code.
C19_Termination ==
  /\ [][/\ (pc = "header" /\ ~Terminal')
             => (pos' > pos /\ pos' <= Len(stream))
        /\ (pc = "walk" /\ LoopOn)
             => (Len(rest') < Len(rest) /\ pos' = pos)]_vars
  /\ (~Terminal ~> Terminal)

\* C19 witness: a stream of a record of some hundred bytes was decoded to
\* its end a second time, sub-record by sub-record.
C19_Witness ==
  /\ pc = "done"
  /\ run = 2
  /\ yielded # <<>>
  /\ pos = Len(stream)
  /\ Len(stream) > 100
  /\ Len(codes) > 8
  /\ Len(workbook) > 2

\* ---------------------------------------------------------------------- C20
\* The type codes of the version-1 table that the version-2 table has not.
Version1Only == {1, 2, 16, 224, 225, 240, 241, 250, 251, 254, 255}

\* The schema of the electrical tests 0xF2..0xF8 in either version.
Version1Schema ==
  (242 :> "SSSEarthResistanceTest") @@ (243 :> "SSSEarthInsulationTest") @@
  (244 :> "SSSCurrentTest") @@ (245 :> "SSSCurrentTest") @@
  (246 :> "SSSPowerLeakTest") @@ (247 :> "SSSCurrentTest") @@
  (248 :> "SSSContinuityTest")
Version2Schema ==
  (242 :> "SSSEarthResistanceTestv2") @@ (243 :> "SSSEarthInsulationTestv2") @@
  (244 :> "SSSCurrentTestv2") @@ (245 :> "SSSCurrentTestv2") @@
  (246 :> "SSSPowerLeakTestv2") @@ (247 :> "SSSCurrentTestv2") @@
  (248 :> "SSSContinuityTestv2")

\* The type code read last was 0xF9 and the table had no entry for it.
UnknownF9 ==
  /\ codes # <<>>
  /\ codes[Len(codes)] = 249
  /\ pc = "error"
  /\ err = Raised("KeyError", "tests[test_type]")

\* C20: while a record is walked and no 0x11 or 0x12 has been read in it, the
\* active table is exactly the version-1 table, so that 0xF9 is an unknown
\* type there; once one has been read, the active table is the version-1
\* table overridden by the version-2 table: the codes of version 1 alone
\* keep their version-1 schemas, 0xF2..0xF8 have their version-2 schemas, and
\* 0xF9, 0x11 and 0x12 resolve.
C20_ActiveTable ==
  /\ pc = "walk" =>
       IF SeenV2(codes)
       THEN /\ DOMAIN tests = Version1Only \cup (242..249) \cup {17, 18}
            /\ \A c \in Version1Only : tests[c] = TESTS_VERSION_1[c]
            /\ \A c \in 242..248 :
                 tests[c] = Version2Schema[c] /\ tests[c] # TESTS_VERSION_1[c]
            /\ required_length(tests[249]) = 0
       ELSE /\ DOMAIN tests = Version1Only \cup (242..248)
            /\ \A c \in 242..248 : tests[c] = Version1Schema[c]
            /\ tests = TESTS_VERSION_1
  /\ (codes # <<>> /\ codes[Len(codes)] = 249) => (UnknownF9 <=> ~SeenV2(codes))

\* C20 witness: after a visual test of type 0x12 the record had a 0xF9, which
\* resolved, and then the version-1 codes 0xFA and 0x10.
C20_Witness ==
  /\ pc = "walk"
  /\ SeenV2(codes)
  /\ Len(codes) >= 3
  /\ SubSeq(codes, Len(codes) - 2, Len(codes)) = <<249, 250, 16>>
  /\ err = NoError
  /\ LastWrite(workbook).cells[3] = IntCell(16)

\* ---------------------------------------------------------------------- C21
\* The pass byte of the version-2 electrical sub-record a step of the walker
\* decodes: the first byte after the type code, the second for 0xF2, which
\* has the test current before it.
PassByte == IF rest[1] = 242 THEN rest[3] ELSE rest[2]

\* C21: for every version-2 electrical kind (0xF2..0xF8) the decoded pass
\* field is a boolean, true exactly when the raw pass byte is 1 and false
\* for every other value of the byte, the same for all these kinds.
C21_PassIsOne ==
  [][(Decoded /\ test_type' \in 242..248 /\ SeenV2(codes))
       => /\ HasPass(LastWrite(workbook'))
          /\ \A j \in DOMAIN LastWrite(workbook').cells :
               LastWrite(workbook').cells[j].k = "bool"
                 => LastWrite(workbook').cells[j] = BoolCell(PassByte = 1)]_vars

\* ---------------------------------------------------------------------- C22
\* C22: decoding never writes to the version-1 and version-2 type tables of
\* the module: after any records, those that brought the version upgrade
\* among them, each is as it was written, the version-1 table has the
\* version-1 schemas at 0xF2..0xF8 and no entry for 0x11, 0x12 or 0xF9, and
\* the table the upgrade changed is the active table of the decode alone.
C22_RegistryImmutable ==
  /\ registry.TESTS_VERSION_1 = TESTS_VERSION_1
  /\ registry.TESTS_VERSION_2 = TESTS_VERSION_2
  /\ \A c \in 242..248 :
       /\ c \in DOMAIN registry.TESTS_VERSION_1
       /\ registry.TESTS_VERSION_1[c] = Version1Schema[c]
  /\ DOMAIN registry.TESTS_VERSION_1 \cap {17, 18, 249} = {}
  /\ (pc = "walk" /\ version = 2) => tests # registry.TESTS_VERSION_1

\* C22 witness: the first record of the file began with a visual test of type
\* 0x11 or 0x12 and was walked to its end under the upgraded table; the
\* second record is being walked, and an electrical test of it has been
\* decoded under the version-1 table.
C22_Witness ==
  /\ Len(yielded) = 2
  /\ yielded[1].payload[1] \in {17, 18}
  /\ pc = "walk"
  /\ version = 1
  /\ codes # <<>>
  /\ codes[Len(codes)] \in 242..248
  /\ tests = registry.TESTS_VERSION_1
  /\ err = NoError

====
